---- MODULE Spec2Model ----
(***************************************************************************)
(* State-machine model of tg-drive-archiver: the JSON state store          *)
(* (storage.py), the Drive/Sheets provisioning helpers (drive_api.py,      *)
(* sheets_api.py), the device-flow poll (google_device_flow.py), the       *)
(* scratch download (tg_media.py) and the aiogram handlers of bot.py.      *)
(*                                                                         *)
(* Python strings are sequences of tokens: a token is either one of the    *)
(* characters sanitize_name treats specially (an illegal character, a      *)
(* space, an apostrophe) or a run of ordinary characters.  The empty       *)
(* sequence stands for a falsy string (None or "").  A drive_user_id of 0  *)
(* stands for a falsy id (None or absent).                                 *)
(***************************************************************************)
EXTENDS Integers, Sequences, FiniteSets, TLC

\* ---------------------------------------------------------------- bounds
NumUsers == 2
NumChats == 1
NumTasks == 2
MaxInv == 2
MaxFail == 1
NumKinds == 2
MaxInterval == 2
MaxTimeout == 5
MaxLen == 3
MaxAuthInv == 3
NumTitled == 2

Users == 1..NumUsers
Chats == 1..NumChats
Tasks == 1..NumTasks

\* ------------------------------------------------------ config.py values
APP_NAME == <<"SetupBridge">>
FOLDER_PHOTOS == <<"Photos">>
FOLDER_VIDEOS == <<"Videos">>
FOLDER_DOCS == <<"Documents">>
FOLDER_AUDIO == <<"Audio">>
FOLDER_VOICE == <<"Voice">>
FOLDER_STICKERS == <<"Stickers">>
FOLDER_OTHER == <<"Other">>
FOLDER_TEXTS == <<"Text", " ", "Archive">>

\* ----------------------------------------------------------- utils.py
\* the character class of the regular expression in sanitize_name
Illegal == {"\\", "/", "*", "?", ":", "\"", "<", ">", "|"}

RECURSIVE LStrip(_)
LStrip(s) == IF s # <<>> /\ Head(s) = " " THEN LStrip(Tail(s)) ELSE s

RECURSIVE RStrip(_)
RStrip(s) ==
  IF s # <<>> /\ s[Len(s)] = " " THEN RStrip(SubSeq(s, 1, Len(s) - 1)) ELSE s

sanitize_name_keeps_empty(name, default) ==
  IF name = <<>> THEN default
  ELSE RStrip(LStrip(SelectSeq(name, LAMBDA c : c \notin Illegal)))

sanitize_name(name, default) ==
  IF name = <<>> THEN default
  ELSE LET n == RStrip(LStrip(SelectSeq(name, LAMBDA c : c \notin Illegal)))
       IN  IF n = <<>> THEN default ELSE n

\* now_iso(): the clock reading is opaque to every handler
now_iso == <<"ts">>

\* str(int) of a chat, user or message identity
Digit == <<"0", "1", "2", "3", "4", "5", "6", "7", "8", "9">>
str(n) == <<Digit[(n \div 10) + 1], Digit[(n % 10) + 1]>>

\* ------------------------------------------------- the storage provider
\* The Drive/Sheets account behind drive_service()/sheets_service(): the
\* sequence of files it holds; the i-th file created has id NodeId(i).
NodeId(i) == <<"id">> \o str(i)

HEADERS == <<"Timestamp", "Group", "Sender", "Sender ID", "Message ID", "Text">>

\* files().list(q=...) of ensure_folder: folders of that name in that parent
FilesList(nodes, name, parent) ==
  {i \in 1..Len(nodes) : /\ nodes[i].mime = "folder"
                         /\ nodes[i].name = name
                         /\ nodes[i].parent = parent}

SetMin(S) == CHOOSE x \in S : \A y \in S : x <= y

\* F applied to the value of v: v is evaluated once, as a Python statement
\* evaluates its right-hand side once before the next statement uses it
Bind(v, F(_)) == CHOOSE r \in {F(x) : x \in {v}} : TRUE

\* One request to the provider made during a call.  st.failAt is the number
\* of the request of this call that the provider fails (0: none fails).
Req(st) == [st EXCEPT !.req = @ + 1, !.raised = (st.req + 1 = st.failAt)]

\* drive_api.ensure_folder(creds, parent_id, folder_name)
ensure_folder(st, parent_id, folder_name) ==
  IF st.raised THEN st
  ELSE
    LET fname == sanitize_name(folder_name, <<"Folder">>)
        parent == IF parent_id = <<>> THEN <<"root">> ELSE parent_id
        safe_name == SelectSeq(fname, LAMBDA c : c # "'")
        \* files().create(body)
        Create(s2) ==
          IF s2.raised THEN s2
          ELSE [s2 EXCEPT !.drive = Append(@, [name |-> fname,
                                               parent |-> parent,
                                               mime |-> "folder",
                                               rows |-> <<>>]),
                          !.ret = NodeId(Len(s2.drive) + 1)]
        \* files().list(q=query), then files[0]["id"] or the create
        List(s1) ==
          IF s1.raised THEN s1
          ELSE IF FilesList(s1.drive, safe_name, parent) # {}
          THEN [s1 EXCEPT !.ret = NodeId(SetMin(FilesList(s1.drive, safe_name, parent)))]
          ELSE Bind(Req(s1), Create)
    IN  Bind(Req(st), List)

\* sheets_api.create_sheet_in_drive_folder(creds, drive, folder_id, title)
create_sheet_in_drive_folder(st, folder_id, title) ==
  IF st.raised THEN st
  ELSE
    LET title1 == sanitize_name(title, <<"Text", " ", "Archive">>)
        \* values().update(range="A1:F1") of the sheet just created
        Update(s3) ==
          IF s3.raised THEN s3
          ELSE [s3 EXCEPT !.drive[Len(s3.drive)].rows = <<HEADERS>>,
                          !.ret = NodeId(Len(s3.drive))]
        \* files().create(body)
        Create(s1) ==
          IF s1.raised THEN s1
          ELSE Bind(Req([s1 EXCEPT !.drive = Append(@, [name |-> title1,
                                                       parent |-> folder_id,
                                                       mime |-> "sheet",
                                                       rows |-> <<>>])]),
                    Update)
    IN  Bind(Req(st), Create)

\* the nodes of the provider that carry the reference ref
NodesOf(nodes, ref) == {i \in 1..Len(nodes) : NodeId(i) = ref}

\* sheets_api.append_row(creds, spreadsheet_id, row): one values().append
\* request; the provider refuses a reference that is not a spreadsheet
append_row(st, spreadsheet_id, row) ==
  IF st.raised THEN st
  ELSE
    LET Append1(s1) ==
          IF s1.raised THEN s1
          ELSE IF \A i \in NodesOf(s1.drive, spreadsheet_id) : s1.drive[i].mime # "sheet"
          THEN [s1 EXCEPT !.raised = TRUE]
          ELSE [s1 EXCEPT !.drive[SetMin(NodesOf(s1.drive, spreadsheet_id))].rows =
                            Append(@, row)]
    IN  Bind(Req(st), Append1)

\* drive_api.upload_file(creds, parent_id, local_path, filename, mime_type);
\* exists: what os.path.exists(local_path) answers
upload_file(st, parent_id, local_path, filename, exists) ==
  IF st.raised THEN st
  ELSE IF ~exists THEN [st EXCEPT !.raised = TRUE]
  ELSE
    LET name == sanitize_name(IF filename # <<>> THEN filename ELSE local_path,
                              <<"file">>)
        \* files().create(body, media_body)
        Create(s1) ==
          IF s1.raised THEN s1
          ELSE [s1 EXCEPT !.drive = Append(@, [name |-> name, parent |-> parent_id,
                                               mime |-> "file", rows |-> <<>>]),
                          !.ret = NodeId(Len(s1.drive) + 1)]
    IN  Bind(Req(st), Create)

\* ------------------------------------------------- google_device_flow.py
\* the locals of one poll_device_flow_token call: where it is (in the while
\* loop with a request to make, asleep, returned, raised), waited, the
\* length of the sleep it is in, and (instrumentation) the seconds it has
\* spent asleep so far and whether it was told to slow down
NoPoll == [pc |-> "none", waited |-> 0, interval |-> 0, timeout_sec |-> 0,
           slept |-> 0, elapsed |-> 0, slowed |-> FALSE]

\* poll_device_flow_token(client_secret_path, device_code, interval,
\* timeout_sec) up to the while: waited = 0
poll_device_flow_token(interval, timeout_sec) ==
  [pc |-> "loop", waited |-> 0, interval |-> interval,
   timeout_sec |-> timeout_sec, slept |-> 0, elapsed |-> 0, slowed |-> FALSE]

\* what the token endpoint answers: a token, or an error code
Responses == {"access_token", "authorization_pending", "slow_down", "access_denied"}

SLOW_DOWN_EXTRA == 2

\* the while test, the post and the branch on its answer, up to the return,
\* the raise or the sleep
PollTurn(p, resp) ==
  IF ~(p.waited < p.timeout_sec) THEN [p EXCEPT !.pc = "device_flow_timeout"]
  ELSE IF resp = "access_token" THEN [p EXCEPT !.pc = "returned"]
  ELSE IF resp \in {"authorization_pending", "slow_down"}
  THEN [p EXCEPT !.pc = "sleep",
                 !.slept = p.interval +
                           (IF resp = "slow_down" THEN SLOW_DOWN_EXTRA ELSE 0)]
  ELSE [p EXCEPT !.pc = "device_flow_token_failed"]

\* the return of the sleep: waited += interval; continue
PollWake(p) == [p EXCEPT !.pc = "loop", !.waited = @ + p.interval, !.slept = 0]

\* one turn as the caller sees it: a slow_down answer is remembered
PollTurnTimed(p, resp) ==
  [PollTurn(p, resp) EXCEPT
     !.slowed = @ \/ (p.waited < p.timeout_sec /\ resp = "slow_down")]

\* the return of the sleep on the caller's clock: the seconds asleep grow by
\* the length of the sleep (counted up to the call's timeout, one interval
\* and one slow-down extra)
PollWakeTimed(p) ==
  LET cap == p.timeout_sec + p.interval + SLOW_DOWN_EXTRA
      e == p.elapsed + p.slept
  IN  [PollWake(p) EXCEPT !.elapsed = IF e < cap THEN e ELSE cap]

PollEnded(p) == p.pc \in {"returned", "device_flow_timeout", "device_flow_token_failed"}

\* ------------------------------------------------------------ storage.py
VARIABLES store, disk, credsFiles, DEVICE_FLOWS, drive, tmp, task, inv, fails,
          provLog

vars == <<store, disk, credsFiles, DEVICE_FLOWS, drive, tmp, task, inv, fails,
          provLog>>

\* bot.py mapping of _ensure_group_structure, in iteration order
mapping == << <<"photos", FOLDER_PHOTOS>>, <<"videos", FOLDER_VIDEOS>>,
              <<"docs", FOLDER_DOCS>>, <<"audio", FOLDER_AUDIO>>,
              <<"voice", FOLDER_VOICE>>, <<"stickers", FOLDER_STICKERS>>,
              <<"other", FOLDER_OTHER>> >>

FolderKeys == {mapping[i][1] : i \in 1..Len(mapping)}

NoFolders == [k \in FolderKeys |-> <<>>]

\* The {} that get_group returns for a chat without a record, read through
\* the defaults the handlers use: g.get("enabled", True), mode != "auto".
EmptyGroup == [exists |-> FALSE, enabled |-> TRUE, mode |-> "reply",
               auto_enabled |-> FALSE, drive_user_id |-> 0,
               root_folder_id |-> <<>>, has_folders |-> FALSE,
               folders |-> NoFolders, sheet_id |-> <<>>,
               notify_interval_h |-> 0, keywords |-> <<>>]

EmptyUser == [exists |-> FALSE, lang |-> "ar", creds_file |-> 0]

\* no pending item; an item holds str(chat_id) and the input awaited
NoPending == [chat_id |-> <<>>, await |-> "none"]

\* the value of a digit character
DigitOf(c) == (CHOOSE d \in 1..10 : Digit[d] = c) - 1

RECURSIVE DigitsValue(_)
DigitsValue(s) ==
  IF s = <<>> THEN 0
  ELSE 10 * DigitsValue(SubSeq(s, 1, Len(s) - 1)) + DigitOf(s[Len(s)])

\* int(s) of a string: surrounding blanks are ignored; -1 for a ValueError
int(s) ==
  LET b == RStrip(LStrip(s))
  IN  IF b # <<>> /\ \A i \in 1..Len(b) : \E d \in 1..10 : Digit[d] = b[i]
      THEN DigitsValue(b)
      ELSE -1

\* The state document is a dict with up to three keys, each a dict of
\* records; data.keys are the keys it has. Storage._users, _groups and
\* _pending hand out data.get(key, {}): for a key the document lacks, a
\* fresh dict that is not put into the document.
StoreKeys == {"users", "groups", "pending"}

EmptyDoc == [users |-> [u \in Users |-> EmptyUser],
             groups |-> [c \in Chats |-> EmptyGroup],
             pending |-> [u \in Users |-> NoPending],
             keys |-> {}]

\* Storage.get_group
get_group(data, chat_id) == data.groups[chat_id]

\* Storage.set_group without its save(): groups[str(chat_id)] = group_data,
\* an assignment into the fresh dict when the document has no "groups"
set_group(data, chat_id, g) ==
  IF "groups" \in data.keys
  THEN [data EXCEPT !.groups[chat_id] = [g EXCEPT !.exists = TRUE]]
  ELSE data

\* Storage.get_user_creds_file: 0 is None, v is the path data/creds_<v>.json
get_user_creds_file(data, user_id) == data.users[user_id].creds_file

\* bot._get_user_creds: the credentials read from the file, 0 for None
_get_user_creds(data, files, user_id) ==
  LET creds_file == get_user_creds_file(data, user_id)
  IN  IF creds_file = 0 \/ creds_file \notin files THEN 0 ELSE creds_file

\* bot._pending_group_for: 0 for None
_pending_group_for(data, user_id) ==
  IF data.pending[user_id].chat_id = <<>> \/ int(data.pending[user_id].chat_id) < 0
  THEN 0
  ELSE int(data.pending[user_id].chat_id)

\* Storage.get_user
get_user(data, user_id) == data.users[user_id]

\* Storage.set_user without its save()
set_user(data, user_id, user_data) ==
  IF "users" \in data.keys
  THEN [data EXCEPT !.users[user_id] = [user_data EXCEPT !.exists = TRUE]]
  ELSE data

\* Storage.set_pending without its save()
set_pending(data, user_id, chat_id) ==
  IF "pending" \in data.keys
  THEN [data EXCEPT !.pending[user_id] = [chat_id |-> str(chat_id), await |-> "none"]]
  ELSE data

\* Storage.get_pending_group_for: 0 for None
get_pending_group_for(data, user_id) ==
  IF data.pending[user_id].chat_id = <<>> \/ int(data.pending[user_id].chat_id) < 0
  THEN 0
  ELSE int(data.pending[user_id].chat_id)

\* ------------------------------------------- bot._ensure_group_structure
Event(e, k, ref, aux) == [e |-> e, k |-> k, ref |-> ref, aux |-> aux]

\* instrumentation: records a files().create made between s0 and s1
Note(s0, s1, role) ==
  Bind(s1, LAMBDA r :
    IF Len(r.drive) > Len(s0.drive)
    THEN [r EXCEPT !.ev = Append(@, Event("create", role,
                                         NodeId(Len(r.drive)), <<>>))]
    ELSE r)

NeedsRoot_always(g) == TRUE

\* bot.py:122  if not g.get("root_folder_id")
NeedsRoot(g) == g.root_folder_id = <<>>

\* bot.py:140  if not folders.get(k)
NeedsFolder(folders, k) == folders[k] = <<>>

NeedsSheet_always(g) == TRUE

\* bot.py:145  if not g.get("sheet_id")
NeedsSheet(g) == g.sheet_id = <<>>

\* bot.py:139-141, the loop over mapping.items(); folders is g["folders"]
\* itself when the record has that key and a fresh dict otherwise
RECURSIVE TypeFolders(_, _, _)
TypeFolders(st, chat_id, i) ==
  IF st.raised \/ i > Len(mapping) THEN st
  ELSE
    LET k == mapping[i][1]
        nm == mapping[i][2]
        g == get_group(st.store, chat_id)
        Assign(r) ==
          IF r.raised THEN r
          ELSE TypeFolders(
                 [r EXCEPT !.folders[k] = r.ret,
                           !.store.groups[chat_id].folders[k] =
                              IF g.has_folders THEN r.ret ELSE @],
                 chat_id, i + 1)
    IN  IF ~NeedsFolder(st.folders, k) THEN TypeFolders(st, chat_id, i + 1)
        ELSE Bind(Note(st, ensure_folder(st, nm, g.root_folder_id), k), Assign)

\* The record is a dict of store.data, so every g[...] = ... below is seen
\* in memory at once; only the closing set_group writes the file.
_ensure_group_structure(st, chat_id, chat_title) ==
  LET g == get_group(st.store, chat_id)
      root_name == APP_NAME \o <<" ", "-", " ">>
                   \o sanitize_name(chat_title, str(chat_id))
      sheet_title == FOLDER_TEXTS \o <<" ", "-", " ">>
                     \o sanitize_name(chat_title, str(chat_id))
      \* bot.py:149  store.set_group(chat_id, g)
      Save(s4) ==
        IF s4.raised THEN s4
        ELSE [s4 EXCEPT
                !.store = set_group(s4.store, chat_id, get_group(s4.store, chat_id)),
                !.disk = set_group(s4.store, chat_id, get_group(s4.store, chat_id))]
      SetSheet(r) ==
        IF r.raised THEN r
        ELSE [r EXCEPT !.store.groups[chat_id].sheet_id = r.ret]
      \* bot.py:145-147
      Sheet(s3) ==
        IF s3.raised \/ ~NeedsSheet(get_group(s3.store, chat_id)) THEN s3
        ELSE Bind(Note(s3, create_sheet_in_drive_folder(
                             s3, get_group(s3.store, chat_id).root_folder_id,
                             sheet_title), "sheet"),
                  SetSheet)
      \* bot.py:142  g["folders"] = folders
      SetFolders(s2) ==
        IF s2.raised THEN s2
        ELSE [s2 EXCEPT !.store.groups[chat_id].folders = s2.folders,
                        !.store.groups[chat_id].has_folders = TRUE]
      \* bot.py:127-141
      Folders(s1) ==
        IF s1.raised THEN s1
        ELSE TypeFolders(
               [s1 EXCEPT !.folders = IF g.has_folders THEN g.folders
                                      ELSE NoFolders],
               chat_id, 1)
      SetRoot(r) ==
        IF r.raised THEN r
        ELSE [r EXCEPT !.store.groups[chat_id].root_folder_id = r.ret]
      \* bot.py:122-124
      Root(s0) ==
        IF ~NeedsRoot(g) THEN s0
        ELSE Bind(Note(s0, ensure_folder(s0, root_name, <<>>), "root"), SetRoot)
  IN
  IF g.drive_user_id = 0
  THEN [st EXCEPT
          !.store = set_group(st.store, chat_id, [g EXCEPT !.drive_user_id = 0]),
          !.disk = set_group(st.store, chat_id, [g EXCEPT !.drive_user_id = 0])]
  ELSE Bind(Bind(Bind(Bind(Bind(st, Root), Folders), SetFolders), Sheet), Save)

\* the most requests one _ensure_group_structure call makes:
\* list+create for the root and each of the 7 folders, create+update for the sheet
MaxReq == 2 * (Len(mapping) + 1) + 2

\* which of the n requests of a section the environment may fail: at most
\* MaxFail operations on the environment fail in one run
FailChoices(n) == IF fails < MaxFail THEN 0..n ELSE {0}

\* the failures of the run after the section that ended in state r
Failed(r) == IF r.failAt # 0 /\ r.req >= r.failAt THEN fails + 1 ELSE fails

\* the call state a handler enters a provider-using section with
Call(failAt) == [store |-> store, disk |-> disk, drive |-> drive, req |-> 0,
                 failAt |-> failAt, raised |-> FALSE, ret |-> <<>>,
                 ev |-> <<>>, folders |-> NoFolders, plog |-> <<>>]

\* ------------------------------------------------------- handler tasks
\* chat.title as the platform reports it (empty: no title)
Titles == {<<>>, <<"A", "/">>}

\* One handler invocation on the event loop: the handler, the await it is
\* suspended at, its locals, and the calls and replies it has made so far.
NoMsg == [text |-> "none", media |-> {}]

IdleTask == [h |-> "idle", pc |-> "idle", id |-> 0, user |-> 0, chat |-> 0,
             creds |-> 0, since |-> 0, msg |-> NoMsg,
             prior |-> "none", rest |-> <<>>, local |-> <<>>, poll |-> NoPoll,
             args |-> <<>>, ret |-> <<>>, trace |-> <<>>]

\* A new invocation takes the lowest slot whose invocation has ended (the
\* slots are interchangeable).
Free(t) == task[t].pc \in {"idle", "done"}

CanStartWithin(t, n) == Free(t) /\ inv < n /\ \A t2 \in 1..(t - 1) : ~Free(t2)

CanStart(t) == CanStartWithin(t, MaxInv)

Started(h, pc, u, c, creds) ==
  [IdleTask EXCEPT !.h = h, !.pc = pc, !.id = inv + 1, !.user = u, !.chat = c,
                   !.creds = creds, !.since = Len(provLog)]

Ended(h, u, c, trace) ==
  [IdleTask EXCEPT !.h = h, !.pc = "done", !.id = inv + 1, !.user = u,
                   !.chat = c, !.trace = trace]

Say(kind, key) == Event(kind, key, <<>>, <<>>)

\* instrumentation: one _ensure_group_structure call that took the call
\* state from s0 to r, for the claims that compare calls
LogEntry(t, since, c, title, s0, r) ==
  [kind |-> "ensure", task |-> t, since |-> since, chat |-> c,
   title |-> title, linked |-> get_group(s0.store, c).drive_user_id # 0,
   ok |-> ~r.raised,
   root |-> get_group(r.store, c).root_folder_id,
   folders |-> get_group(r.store, c).folders,
   sheet |-> get_group(r.store, c).sheet_id,
   made |-> {<<r.ev[i].k, r.ev[i].ref>> : i \in (Len(s0.ev) + 1)..Len(r.ev)}]

\* _ensure_group_structure as the handlers call it, with the call logged
Provision(st, t, since, c, title) ==
  Bind(_ensure_group_structure(st, c, title),
       LAMBDA r : [r EXCEPT !.plog = Append(@, LogEntry(t, since, c, title, st, r))])

UnlinkEntry(t, c) ==
  [kind |-> "unlink", task |-> t, since |-> 0, chat |-> c, title |-> <<>>,
   linked |-> FALSE, ok |-> TRUE, root |-> <<>>, folders |-> NoFolders,
   sheet |-> <<>>, made |-> {}]

\* chat.title or str(chat_id)
TitleOr(title, chat_id) == IF title = <<>> THEN str(chat_id) ELSE title

\* group_actions, "group:ensure_folders", up to await bot.get_chat
GroupEnsureFolders(t, u) ==
  /\ CanStart(t)
  /\ inv' = inv + 1
  /\ LET chat_id == _pending_group_for(store, u)
         h == "group:ensure_folders"
     IN  task' = [task EXCEPT ![t] =
           IF chat_id = 0
           THEN Ended(h, u, 0, <<Say("alert", "pending_not_found")>>)
           ELSE IF get_group(store, chat_id).drive_user_id = 0
           THEN Ended(h, u, chat_id, <<Say("alert", "drive_not_linked")>>)
           ELSE LET creds == _get_user_creds(store, credsFiles,
                                get_group(store, chat_id).drive_user_id)
                IN  IF creds = 0
                    THEN Ended(h, u, chat_id, <<Say("alert", "drive_not_linked")>>)
                    ELSE Started(h, "get_chat", u, chat_id, creds)]
  /\ UNCHANGED <<store, disk, credsFiles, DEVICE_FLOWS, drive, tmp, fails, provLog>>

\* group_actions, "group:ensure_folders", from the return of bot.get_chat:
\* _ensure_group_structure runs without an await; an exception leaves the
\* handler (no try)
GroupEnsureFoldersGotChat(t) ==
  /\ task[t].h = "group:ensure_folders"
  /\ task[t].pc = "get_chat"
  /\ \E title \in Titles, failAt \in FailChoices(MaxReq) :
       \E r \in {Provision(Call(failAt), t, task[t].since, task[t].chat,
                            TitleOr(title, task[t].chat))} :
           /\ store' = r.store
           /\ disk' = r.disk
           /\ drive' = r.drive
           /\ fails' = Failed(r)
           /\ provLog' = provLog \o r.plog
           /\ task' = [task EXCEPT ![t].pc = "done",
                         ![t].trace = r.ev \o
                            (IF r.raised THEN <<Say("raise", "provider")>>
                             ELSE <<Say("alert", "saved")>>)]
  /\ UNCHANGED <<credsFiles, DEVICE_FLOWS, tmp, inv>>

\* group_actions, "group:ensure_folders": bot.get_chat raises
GroupEnsureFoldersChatFails(t) ==
  /\ task[t].h = "group:ensure_folders"
  /\ task[t].pc = "get_chat"
  /\ task' = [task EXCEPT ![t].pc = "done",
                          ![t].trace = <<Say("raise", "get_chat")>>]
  /\ UNCHANGED <<store, disk, credsFiles, DEVICE_FLOWS, drive, tmp, inv, fails, provLog>>

\* the record "drive:unlink" writes back
Unlinked_resets_settings(g) ==
  [EmptyGroup EXCEPT !.exists = g.exists, !.has_folders = TRUE]

Unlinked(g) ==
  [g EXCEPT !.drive_user_id = 0, !.root_folder_id = <<>>,
            !.folders = NoFolders, !.has_folders = TRUE, !.sheet_id = <<>>]

\* drive_menu, "drive:unlink"
DriveUnlink(t, u) ==
  /\ CanStart(t)
  /\ inv' = inv + 1
  /\ LET chat_id == _pending_group_for(store, u)
     IN  IF chat_id = 0
         THEN /\ task' = [task EXCEPT ![t] =
                   Ended("drive:unlink", u, 0, <<Say("alert", "pending_not_found")>>)]
              /\ UNCHANGED <<store, disk, provLog>>
         ELSE LET g == get_group(store, chat_id)
                  d == set_group(store, chat_id, Unlinked(g))
              IN  /\ store' = d
                  /\ disk' = d
                  /\ provLog' = Append(provLog, UnlinkEntry(t, chat_id))
                  /\ task' = [task EXCEPT ![t] =
                       Ended("drive:unlink", u, chat_id, <<Say("alert", "unlink_ok")>>)]
  /\ UNCHANGED <<credsFiles, DEVICE_FLOWS, drive, tmp, fails>>

\* ------------------------------------------------- archive handlers
\* the attachment fields the handlers test, in the order they test them:
\* the field, the folder key and the file name passed to _upload
\* (one attachment id "U"; a document or audio without a file_name)
Media ==
  << [field |-> "photo", key |-> "photos", name |-> <<"photo_", "U", ".jpg">>],
     [field |-> "video", key |-> "videos", name |-> <<"video_", "U", ".mp4">>],
     [field |-> "document", key |-> "docs",
      name |-> sanitize_name(<<"doc_", "U">>, <<"document">>)],
     [field |-> "audio", key |-> "audio",
      name |-> sanitize_name(<<"audio_", "U", ".mp3">>, <<"audio">>)],
     [field |-> "voice", key |-> "voice", name |-> <<"voice_", "U", ".ogg">>],
     [field |-> "sticker", key |-> "stickers",
      name |-> <<"sticker_", "U", ".webp">>] >>

Kinds == 1..NumKinds

\* a message: its text or caption (none, plain, or starting with "/") and
\* the attachment fields it carries
Shapes == [text : {"none", "text"}, media : SUBSET Kinds] \cup
          {[text |-> "command", media |-> {}]}

\* chat.title of a chat messages are archived from
ArchiveTitles == {<<"A", "/">>}

\* msg.reply_to_message is None
NoReply == [text |-> "noreply", media |-> {}]

RECURSIVE InOrder(_)
InOrder(S) == IF S = {} THEN <<>> ELSE <<SetMin(S)>> \o InOrder(S \ {SetMin(S)})

TMP_DIR == <<"tmp", "/">>

\* the sender and the id of the archived message
SENDER == <<"S">>
SENDER_ID == 7
MESSAGE_ID == 5

TextOf(msg) == IF msg.text = "command" THEN <<"/", "x">> ELSE <<"hello">>

\* bot.py:606 and 699
Row(group_title, msg) ==
  <<now_iso, group_title, SENDER, str(SENDER_ID), str(MESSAGE_ID), TextOf(msg)>>

ArchiveHandlers == {"archive_cmd", "auto_archiver"}

\* the except clause: archive_cmd replies archive_failed, auto_archiver logs
OnRaise_always_replies(h, what) ==
  <<Say("raise", what), Say("reply", "archive_failed")>>

OnRaise(h, what) ==
  <<Say("raise", what)>> \o
  (IF h = "archive_cmd" THEN <<Say("reply", "archive_failed")>> ELSE <<>>)

\* the end of the try block: archive_cmd replies archive_done
OnDone(h) == IF h = "archive_cmd" THEN <<Say("reply", "archive_done")>> ELSE <<>>

\* what a rejected request does to the store: nothing (bot.py:575-591, 666-685)
Rejected_unlinks(data, chat_id) ==
  set_group(data, chat_id, [get_group(data, chat_id) EXCEPT !.drive_user_id = 0])

Rejected(data, chat_id) == data

\* bot.py:595-610 and 689-697: the provisioning call, then the ledger row
\* of a text or caption; recheck: archive_cmd provisions again when the
\* record has no sheet_id
ProvisionAndRow(st, t, c, group_title, msg, recheck) ==
  LET Row1(s2) ==
        IF s2.raised THEN s2
        ELSE IF get_group(s2.store, c).sheet_id = <<>> THEN [s2 EXCEPT !.raised = TRUE]
        ELSE Bind(append_row(s2, get_group(s2.store, c).sheet_id, Row(group_title, msg)),
                  LAMBDA r : IF r.raised THEN r
                             ELSE [r EXCEPT !.ev = Append(@,
                                     Event("append", "sheet",
                                           get_group(s2.store, c).sheet_id,
                                           Row(group_title, msg)))])
      Text(s1) ==
        IF s1.raised \/ msg.text = "none" THEN s1
        ELSE IF recheck /\ get_group(s1.store, c).sheet_id = <<>>
        THEN Bind(Provision(s1, t, Len(provLog), c, group_title), Row1)
        ELSE Row1(s1)
  IN  Bind(Provision(st, t, Len(provLog), c, group_title), Text)

\* instrumentation: how many of its references a group record holds
Prior(g) ==
  IF g.root_folder_id = <<>> /\ g.folders = NoFolders /\ g.sheet_id = <<>>
  THEN "none"
  ELSE IF g.root_folder_id # <<>> /\ g.sheet_id # <<>> /\
          \A k \in FolderKeys : g.folders[k] # <<>>
  THEN "all" ELSE "part"

\* the shared body of both handlers from the try on, up to the first await
ArchiveBody(t, h, c, msg, title, creds) ==
  \E failAt \in FailChoices(2 * MaxReq + 1) :
    \E r \in {ProvisionAndRow(Call(failAt), t, c, TitleOr(title, c), msg,
                              h = "archive_cmd")} :
      /\ store' = r.store
      /\ disk' = r.disk
      /\ drive' = r.drive
      /\ fails' = Failed(r)
      /\ provLog' = provLog \o r.plog
      /\ task' = [task EXCEPT ![t] =
           [Started(h, IF r.raised \/ msg.media = {} THEN "done" ELSE "dl_req",
                    0, c, creds)
              EXCEPT !.msg = msg,
                     !.prior = Prior(get_group(store, c)),
                     !.rest = IF r.raised THEN <<>> ELSE InOrder(msg.media),
                     !.trace = <<Say("pre", "ok")>> \o r.ev \o
                               (IF r.raised THEN OnRaise(h, "provider")
                                ELSE IF msg.media = {} THEN OnDone(h)
                                ELSE <<>>)]]

\* archive_cmd, bot.py:575-591: the reply of the first precondition that
\* does not hold, "ok" when all hold
archive_precondition_reply_first(g, msg, creds) ==
  IF msg = NoReply THEN "reply_required"
  ELSE IF ~g.enabled THEN "not_enabled"
  ELSE IF g.drive_user_id = 0 THEN "drive_not_linked"
  ELSE IF creds = 0 THEN "drive_not_linked"
  ELSE "ok"

archive_precondition(g, msg, creds) ==
  IF ~g.enabled THEN "not_enabled"
  ELSE IF msg = NoReply THEN "reply_required"
  ELSE IF g.drive_user_id = 0 THEN "drive_not_linked"
  ELSE IF creds = 0 THEN "drive_not_linked"
  ELSE "ok"

\* archive_cmd in a group chat, up to its first await
ArchiveCmd(t, c, msg, title) ==
  /\ CanStart(t)
  /\ inv' = inv + 1
  /\ LET g == get_group(store, c)
         h == "archive_cmd"
         creds == _get_user_creds(store, credsFiles, g.drive_user_id)
         key == archive_precondition(g, msg, creds)
     IN  IF key # "ok"
         THEN /\ store' = Rejected(store, c)
              /\ task' = [task EXCEPT ![t] =
                   [Ended(h, 0, c, <<Say("reply", key)>>) EXCEPT !.msg = msg]]
              /\ UNCHANGED <<disk, drive, fails, provLog>>
         ELSE ArchiveBody(t, h, c, msg, title, creds)
  /\ UNCHANGED <<credsFiles, DEVICE_FLOWS, tmp>>

\* auto_archiver in a group chat, up to its first await
AutoArchiver(t, c, msg, title) ==
  /\ CanStart(t)
  /\ inv' = inv + 1
  /\ LET g == get_group(store, c)
         h == "auto_archiver"
         creds == _get_user_creds(store, credsFiles, g.drive_user_id)
         Reject(key) ==
           /\ store' = Rejected(store, c)
           /\ task' = [task EXCEPT ![t] = Ended(h, 0, c, <<Say("return", key)>>)]
           /\ UNCHANGED <<disk, drive, fails, provLog>>
     IN  IF ~g.enabled THEN Reject("not_enabled")
         ELSE IF g.mode # "auto" THEN Reject("not_auto")
         ELSE IF ~g.auto_enabled THEN Reject("auto_off")
         ELSE IF msg.text = "command" THEN Reject("command")
         ELSE IF g.drive_user_id = 0 THEN Reject("drive_not_linked")
         ELSE IF creds = 0 THEN Reject("drive_not_linked")
         ELSE ArchiveBody(t, h, c, msg, title, creds)
  /\ UNCHANGED <<credsFiles, DEVICE_FLOWS, tmp>>

\* the scratch path download_telegram_file writes an attachment to
LocalOf(m) == TMP_DIR \o sanitize_name(m.name, <<"file">>)

\* tg_media.download_telegram_file from the return of bot.get_file and of
\* the GET to open(local, "wb"), suspended then at await r.read()
ArchiveDownloadOpen(t) ==
  /\ task[t].h \in ArchiveHandlers
  /\ task[t].pc = "dl_req"
  /\ LET local == LocalOf(Media[Head(task[t].rest)])
     IN  /\ tmp' = {f \in tmp : f.path # local} \cup
                   {[path |-> local, by |-> task[t].id]}
         /\ task' = [task EXCEPT ![t].pc = "dl_read", ![t].local = local,
                       ![t].trace = Append(@, Event("open", Media[Head(task[t].rest)].key,
                                                    local, <<>>))]
  /\ UNCHANGED <<store, disk, credsFiles, DEVICE_FLOWS, drive, inv, fails, provLog>>

\* bot.get_file, the GET or r.read() raises: the handler's except clause
ArchiveDownloadFails(t) ==
  /\ task[t].h \in ArchiveHandlers
  /\ task[t].pc \in {"dl_req", "dl_read"}
  /\ fails < MaxFail
  /\ fails' = fails + 1
  /\ task' = [task EXCEPT ![t].pc = "done", ![t].rest = <<>>,
                          ![t].trace = @ \o OnRaise(task[t].h, "download")]
  /\ UNCHANGED <<store, disk, credsFiles, DEVICE_FLOWS, drive, tmp, inv, provLog>>

\* the scratch directory after the finally clause of _upload: os.remove(local)
\* runs whether upload_file raised or not, and may itself fail
Finally_on_success(files, local, raised, rmFails) ==
  IF rmFails \/ raised THEN files ELSE {f \in files : f.path # local}

Finally(files, local, raised, rmFails) ==
  IF rmFails THEN files ELSE {f \in files : f.path # local}

\* _upload from the return of r.read(): the file is written, upload_file is
\* called, os.remove(local) runs in the finally; then the next attachment
\* field, the reply, or the except clause
ArchiveUpload(t) ==
  /\ task[t].h \in ArchiveHandlers
  /\ task[t].pc = "dl_read"
  /\ LET m == Media[Head(task[t].rest)]
         h == task[t].h
         local == task[t].local
         g == get_group(store, task[t].chat)
     IN  \E exists \in BOOLEAN, failAt \in FailChoices(1), rmFails \in BOOLEAN :
         \E r \in {IF g.folders[m.key] = <<>>
                   THEN [Call(failAt) EXCEPT !.raised = TRUE]
                   ELSE upload_file(Call(failAt), local, m.name, g.folders[m.key],
                                    exists)} :
           /\ rmFails => Failed(r) < MaxFail
           /\ drive' = r.drive
           /\ fails' = Failed(r) + (IF rmFails THEN 1 ELSE 0)
           /\ tmp' = Finally(tmp, local, r.raised, rmFails)
           /\ task' = [task EXCEPT
                 ![t].pc = IF r.raised \/ Len(task[t].rest) = 1 THEN "done"
                           ELSE "dl_req",
                 ![t].rest = IF r.raised THEN <<>> ELSE Tail(@),
                 ![t].trace = @ \o
                    (IF g.folders[m.key] = <<>> THEN <<>>
                     ELSE <<Event("upload", m.key, local, m.name),
                            Event(IF r.raised THEN "refused" ELSE "create", "file",
                                  NodeId(Len(r.drive)), g.folders[m.key])>>) \o
                    <<Event("remove", IF rmFails THEN "failed" ELSE "ok", local, <<>>)>> \o
                    (IF r.raised THEN OnRaise(h, "upload")
                     ELSE IF Len(task[t].rest) = 1 THEN OnDone(h)
                     ELSE <<>>)]
  /\ UNCHANGED <<store, disk, credsFiles, DEVICE_FLOWS, inv, provLog>>

\* ------------------------------------------------- linking handlers
\* DEVICE_FLOWS.get(user_id): no entry, or the JSON of the device-code
\* endpoint: with or without its device_code, user_code and verification
\* url (0: without; the endpoint issues a new device code to every request,
\* here the number of the invocation that asked), and with its interval
\* (0: none given)
NoFlow == [set |-> FALSE, device_code |-> 0, interval |-> 0]

FlowIntervals == {0, 90}

Flows(id) == [set : {TRUE}, device_code : {0, id}, interval : FlowIntervals]

TIMEOUT_SEC == 180
DEFAULT_INTERVAL == 5

\* int(flow.get("interval") or 5)
IntervalOf(flow) == IF flow.interval = 0 THEN DEFAULT_INTERVAL ELSE flow.interval

\* _save_user_creds(user_id, token_json): writes data/creds_<user_id>.json,
\* then calls store.set_user_creds, which Storage does not define
\* (storage.py has set_user_creds_file): AttributeError
_save_user_creds(data, files, user_id) ==
  [data |-> data, files |-> files \cup {user_id}, raised |-> TRUE]

\* drive_menu, "drive:link", up to await start_device_flow
DriveLink(t, u) ==
  /\ CanStartWithin(t, MaxAuthInv)
  /\ inv' = inv + 1
  /\ LET chat_id == _pending_group_for(store, u)
     IN  task' = [task EXCEPT ![t] =
           IF chat_id = 0
           THEN Ended("drive:link", u, 0, <<Say("alert", "pending_not_found")>>)
           ELSE Started("drive:link", "start_flow", u, chat_id, 0)]
  /\ UNCHANGED <<store, disk, credsFiles, DEVICE_FLOWS, drive, tmp, fails, provLog>>

\* drive_menu, "drive:link", from the return of start_device_flow: the flow
\* is stored before it is looked at
DriveLinkStarted(t) ==
  /\ task[t].h = "drive:link"
  /\ task[t].pc = "start_flow"
  /\ \E flow \in Flows(task[t].id) :
       /\ DEVICE_FLOWS' = [DEVICE_FLOWS EXCEPT ![task[t].user] = flow]
       /\ task' = [task EXCEPT ![t].pc = "done",
                     ![t].trace = IF flow.device_code # 0
                                  THEN <<Say("edit", "device_code_body"), Say("answer", "")>>
                                  ELSE <<Say("alert", "device flow response invalid")>>]
  /\ UNCHANGED <<store, disk, credsFiles, drive, tmp, inv, fails, provLog>>

\* drive_menu, "drive:link": start_device_flow raises
DriveLinkFails(t) ==
  /\ task[t].h = "drive:link"
  /\ task[t].pc = "start_flow"
  /\ task' = [task EXCEPT ![t].pc = "done",
                          ![t].trace = <<Say("alert", "device_flow_start_failed")>>]
  /\ UNCHANGED <<store, disk, credsFiles, DEVICE_FLOWS, drive, tmp, inv, fails, provLog>>

\* drive_menu, "drive:verify", up to the first request of the poll
DriveVerify(t, u) ==
  /\ CanStartWithin(t, MaxAuthInv)
  /\ inv' = inv + 1
  /\ LET chat_id == _pending_group_for(store, u)
         flow == DEVICE_FLOWS[u]
         h == "drive:verify"
     IN  task' = [task EXCEPT ![t] =
           IF chat_id = 0
           THEN Ended(h, u, 0, <<Say("alert", "pending_not_found")>>)
           ELSE IF ~flow.set
           THEN Ended(h, u, chat_id, <<Say("alert", "linked_fail")>>)
           ELSE IF flow.device_code = 0
           THEN Ended(h, u, chat_id, <<Say("alert", "verifying"), Say("raise", "KeyError"),
                                       Say("alert", "linked_fail")>>)
           ELSE [Started(h, "poll", u, chat_id, 0) EXCEPT
                   !.poll = poll_device_flow_token(IntervalOf(flow), TIMEOUT_SEC),
                   !.args = <<flow.device_code>>,
                   !.trace = <<Say("alert", "verifying")>>]]
  /\ UNCHANGED <<store, disk, credsFiles, DEVICE_FLOWS, drive, tmp, fails, provLog>>

\* instrumentation: how the poll of a verify invocation for a device code
\* ended
PollEntry(t, p) ==
  [kind |-> "poll", task |-> t, id |-> task[t].id, user |-> task[t].user,
   code |-> task[t].args[1], outcome |-> p.pc]

\* drive_menu, "drive:verify": one turn of the poll. On a token
\* _save_user_creds runs outside any try and its exception ends the
\* handler; on a raise of the poll the handler answers linked_fail
DriveVerifyPoll(t, resp) ==
  /\ task[t].h = "drive:verify"
  /\ task[t].pc = "poll"
  /\ task[t].poll.pc = "loop"
  /\ \E p \in {PollTurn(task[t].poll, resp)} :
     \E s \in {_save_user_creds(store, credsFiles, task[t].user)} :
       IF p.pc = "sleep"
       THEN /\ task' = [task EXCEPT ![t].poll = p]
            /\ UNCHANGED <<store, disk, credsFiles, provLog>>
       ELSE IF p.pc = "returned"
       THEN /\ store' = s.data
            /\ credsFiles' = s.files
            /\ provLog' = Append(provLog, PollEntry(t, p))
            /\ task' = [task EXCEPT ![t].pc = "done", ![t].poll = p,
                          ![t].trace = @ \o <<Say("poll", "access_token"),
                                              Say("wrote", "creds"),
                                              Say("raise", "AttributeError")>>]
            /\ UNCHANGED disk
       ELSE /\ task' = [task EXCEPT ![t].pc = "done", ![t].poll = p,
                          ![t].trace = @ \o <<Say("raise", p.pc),
                                              Say("alert", "linked_fail")>>]
            /\ provLog' = Append(provLog, PollEntry(t, p))
            /\ UNCHANGED <<store, disk, credsFiles>>
  /\ UNCHANGED <<DEVICE_FLOWS, drive, tmp, inv, fails>>

\* drive_menu, "drive:verify": the sleep of the poll returns
DriveVerifyWake(t) ==
  /\ task[t].h = "drive:verify"
  /\ task[t].pc = "poll"
  /\ task[t].poll.pc = "sleep"
  /\ task' = [task EXCEPT ![t].poll = PollWake(@)]
  /\ UNCHANGED <<store, disk, credsFiles, DEVICE_FLOWS, drive, tmp, inv, fails, provLog>>

\* ------------------------------------------------- the poll on its own
\* a caller of poll_device_flow_token: one turn of its loop
PollRespond(t, resp) ==
  /\ task[t].h = "poll_device_flow_token"
  /\ task[t].poll.pc = "loop"
  /\ \E p \in {PollTurnTimed(task[t].poll, resp)} :
       task' = [task EXCEPT ![t].poll = p,
                            ![t].pc = IF PollEnded(p) THEN "done" ELSE "poll"]
  /\ UNCHANGED <<store, disk, credsFiles, DEVICE_FLOWS, drive, tmp, inv, fails, provLog>>

\* a caller of poll_device_flow_token: its sleep returns
PollSleepEnds(t) ==
  /\ task[t].h = "poll_device_flow_token"
  /\ task[t].poll.pc = "sleep"
  /\ task' = [task EXCEPT ![t].poll = PollWakeTimed(@)]
  /\ UNCHANGED <<store, disk, credsFiles, DEVICE_FLOWS, drive, tmp, inv, fails, provLog>>

\* ------------------------------------------------- settings handlers
MIN_INTERVAL_H == 1
MAX_INTERVAL_H == 24
MAX_KEYWORDS == 20

\* the private texts a user sends while an input is awaited
Texts == {<<"2">>, <<" ", "2", " ">>, <<"0">>, <<"2", "5">>, <<"x">>,
          <<"x", ",", " ", "y">>, <<",", " ">>}

\* text.split(",")
RECURSIVE split(_)
split(s) ==
  IF \A i \in 1..Len(s) : s[i] # ","
  THEN <<s>>
  ELSE LET i == CHOOSE j \in 1..Len(s) : s[j] = "," /\ \A k \in 1..(j - 1) : s[k] # ","
       IN  <<SubSeq(s, 1, i - 1)>> \o split(SubSeq(s, i + 1, Len(s)))

\* [p.strip() for p in parts], then the non-empty ones
Parts(text) ==
  SelectSeq([i \in 1..Len(split(text)) |-> RStrip(LStrip(split(text)[i]))],
            LAMBDA p : p # <<>>)

\* parts[:20]
Take(s, n) == SubSeq(s, 1, IF Len(s) < n THEN Len(s) ELSE n)

\* store.save() without its argument: a TypeError, nothing is written
SaveRaises == Say("raise", "TypeError")

\* group_actions, "group:toggle_arch"
GroupToggleArch(t, u) ==
  /\ CanStart(t)
  /\ inv' = inv + 1
  /\ LET chat_id == _pending_group_for(store, u)
     IN  IF chat_id = 0
         THEN /\ task' = [task EXCEPT ![t] =
                   Ended("group:toggle_arch", u, 0, <<Say("alert", "pending_not_found")>>)]
              /\ UNCHANGED <<store, disk>>
         ELSE LET g == get_group(store, chat_id)
                  d == set_group(store, chat_id, [g EXCEPT !.enabled = ~g.enabled])
              IN  /\ store' = d
                  /\ disk' = d
                  /\ task' = [task EXCEPT ![t] =
                       Ended("group:toggle_arch", u, chat_id, <<>>)]
  /\ UNCHANGED <<credsFiles, DEVICE_FLOWS, drive, tmp, fails, provLog>>

\* adv_handler, "adv:mode" and "adv:auto"
AdvToggle(t, u, action) ==
  /\ CanStart(t)
  /\ inv' = inv + 1
  /\ LET chat_id == _pending_group_for(store, u)
         h == IF action = "mode" THEN "adv:mode" ELSE "adv:auto"
     IN  IF chat_id = 0
         THEN /\ task' = [task EXCEPT ![t] =
                   Ended(h, u, 0, <<Say("alert", "pending_not_found")>>)]
              /\ UNCHANGED <<store, disk>>
         ELSE LET g == get_group(store, chat_id)
                  d == set_group(store, chat_id,
                         IF action = "mode"
                         THEN [g EXCEPT !.mode = IF g.mode # "auto" THEN "auto" ELSE "reply"]
                         ELSE [g EXCEPT !.auto_enabled = ~g.auto_enabled])
              IN  /\ store' = d
                  /\ disk' = d
                  /\ task' = [task EXCEPT ![t] = Ended(h, u, chat_id, <<>>)]
  /\ UNCHANGED <<credsFiles, DEVICE_FLOWS, drive, tmp, fails, provLog>>

\* adv_handler, "adv:interval" and "adv:keywords", up to
\* await call.message.edit_text
AdvAsk(t, u, action) ==
  /\ CanStart(t)
  /\ inv' = inv + 1
  /\ LET chat_id == _pending_group_for(store, u)
         h == IF action = "interval" THEN "adv:interval" ELSE "adv:keywords"
     IN  task' = [task EXCEPT ![t] =
           IF chat_id = 0
           THEN Ended(h, u, 0, <<Say("alert", "pending_not_found")>>)
           ELSE [Started(h, "edit_text", u, chat_id, 0) EXCEPT !.args = <<action>>]]
  /\ UNCHANGED <<store, disk, credsFiles, DEVICE_FLOWS, drive, tmp, fails, provLog>>

\* adv_handler, "adv:interval" and "adv:keywords", from the return of
\* edit_text: the pending item is rewritten in memory and store.save()
\* raises before anything is written
AdvAskEdited(t) ==
  /\ task[t].h \in {"adv:interval", "adv:keywords"}
  /\ task[t].pc = "edit_text"
  /\ store' = [store EXCEPT !.keys = @ \cup {"pending"},
                            !.pending[task[t].user] =
                               [chat_id |-> str(task[t].chat), await |-> task[t].args[1]]]
  /\ task' = [task EXCEPT ![t].pc = "done", ![t].trace = <<SaveRaises>>]
  /\ UNCHANGED <<disk, credsFiles, DEVICE_FLOWS, drive, tmp, inv, fails, provLog>>

\* adv_handler, "adv:interval" and "adv:keywords": edit_text raises
AdvAskEditFails(t) ==
  /\ task[t].h \in {"adv:interval", "adv:keywords"}
  /\ task[t].pc = "edit_text"
  /\ task' = [task EXCEPT ![t].pc = "done", ![t].trace = <<Say("raise", "edit_text")>>]
  /\ UNCHANGED <<store, disk, credsFiles, DEVICE_FLOWS, drive, tmp, inv, fails, provLog>>

\* private_text_router: set_group saves the document, then the pending
\* item is rewritten in memory and store.save() raises
PrivateTextRouter(t, u, text) ==
  /\ CanStart(t)
  /\ inv' = inv + 1
  /\ LET pend == store.pending[u]
         chat_id == _pending_group_for(store, u)
         h == "private_text_router"
         g == get_group(store, chat_id)
         n == int(text)
         saved == set_group(store, chat_id,
                    IF pend.await = "interval"
                    THEN [g EXCEPT !.notify_interval_h = n]
                    ELSE [g EXCEPT !.keywords = Take(Parts(text), MAX_KEYWORDS)])
     IN  IF pend.await = "none"
         THEN /\ task' = [task EXCEPT ![t] = Ended(h, u, 0, <<>>)]
              /\ UNCHANGED <<store, disk>>
         ELSE IF chat_id = 0
         THEN /\ task' = [task EXCEPT ![t] =
                   Ended(h, u, 0, <<Say("reply", "pending_not_found")>>)]
              /\ UNCHANGED <<store, disk>>
         ELSE IF pend.await = "interval" /\ ~(MIN_INTERVAL_H <= n /\ n <= MAX_INTERVAL_H)
         THEN /\ task' = [task EXCEPT ![t] =
                   Ended(h, u, chat_id, <<Say("reply", "bad_interval")>>)]
              /\ UNCHANGED <<store, disk>>
         ELSE /\ disk' = saved
              /\ store' = [saved EXCEPT !.pending[u] =
                             [chat_id |-> str(chat_id), await |-> "none"]]
              /\ task' = [task EXCEPT ![t] =
                   [Ended(h, u, chat_id, <<SaveRaises>>) EXCEPT !.args = <<text>>]]
  /\ UNCHANGED <<credsFiles, DEVICE_FLOWS, drive, tmp, fails, provLog>>

\* ------------------------------------------------- setup handlers
\* member.status as bot.get_chat_member reports it: user 1 created every
\* group, the other users are plain members
ChatMemberStatus(chat_id, user_id) == IF user_id = 1 THEN "creator" ELSE "member"

ADMIN_STATUSES == {"administrator", "creator"}

\* what follows "/start setup_" in a private message
Payloads == {str(c) : c \in Chats} \cup {<<"1">>, <<" ", "1">>, <<"0">>, <<"x">>, <<>>}

\* cmd_setup, up to await bot.get_chat_member; chat 0: a private chat
CmdSetup(t, u, c) ==
  /\ CanStart(t)
  /\ inv' = inv + 1
  /\ task' = [task EXCEPT ![t] =
       IF c = 0
       THEN Ended("cmd_setup", u, 0, <<Say("reply", "only_groups")>>)
       ELSE Started("cmd_setup", "get_chat_member", u, c, 0)]
  /\ UNCHANGED <<store, disk, credsFiles, DEVICE_FLOWS, drive, tmp, fails, provLog>>

\* cmd_setup from the return of get_chat_member: the role test, then
\* store.set_pending and the reply with the deep link
CmdSetupGotMember(t) ==
  /\ task[t].h = "cmd_setup"
  /\ task[t].pc = "get_chat_member"
  /\ IF ChatMemberStatus(task[t].chat, task[t].user) \notin ADMIN_STATUSES
     THEN /\ task' = [task EXCEPT ![t].pc = "done",
                                  ![t].trace = <<Say("reply", "need_admin")>>]
          /\ UNCHANGED <<store, disk>>
     ELSE /\ store' = set_pending(store, task[t].user, task[t].chat)
          /\ disk' = store'
          /\ task' = [task EXCEPT ![t].pc = "done",
                                  ![t].trace = <<Say("reply", "setup_ready")>>]
  /\ UNCHANGED <<credsFiles, DEVICE_FLOWS, drive, tmp, inv, fails, provLog>>

\* cmd_setup: get_chat_member raises
CmdSetupMemberFails(t) ==
  /\ task[t].h = "cmd_setup"
  /\ task[t].pc = "get_chat_member"
  /\ task' = [task EXCEPT ![t].pc = "done",
                          ![t].trace = <<Say("raise", "get_chat_member")>>]
  /\ UNCHANGED <<store, disk, credsFiles, DEVICE_FLOWS, drive, tmp, inv, fails, provLog>>

\* cmd_start_setup_private: "/start setup_<payload>" in a private chat
CmdStartSetupPrivate(t, u, payload) ==
  /\ CanStart(t)
  /\ inv' = inv + 1
  /\ LET chat_id == int(payload)
         h == "cmd_start_setup_private"
     IN  IF chat_id < 0
         THEN /\ task' = [task EXCEPT ![t] =
                   Ended(h, u, 0, <<Say("answer", "pending_not_found")>>)]
              /\ UNCHANGED <<store, disk>>
         ELSE /\ store' = set_pending(store, u, chat_id)
              /\ disk' = store'
              /\ task' = [task EXCEPT ![t] =
                   [Ended(h, u, chat_id, <<>>) EXCEPT !.args = <<payload>>]]
  /\ UNCHANGED <<credsFiles, DEVICE_FLOWS, drive, tmp, fails, provLog>>

\* ------------------------------------------------- sanitize_name alone
\* a caller of sanitize_name(name, default)
SanitizeName(t) ==
  /\ task[t].h = "sanitize_name"
  /\ task[t].pc = "call"
  /\ task' = [task EXCEPT ![t].pc = "once",
                          ![t].ret = <<sanitize_name(task[t].args[1], task[t].args[2])>>]
  /\ UNCHANGED <<store, disk, credsFiles, DEVICE_FLOWS, drive, tmp, inv, fails, provLog>>

\* the caller passes the result through sanitize_name again
SanitizeAgain(t) ==
  /\ task[t].h = "sanitize_name"
  /\ task[t].pc = "once"
  /\ task' = [task EXCEPT ![t].pc = "done",
                          ![t].ret = Append(@, sanitize_name(task[t].ret[1], task[t].args[2]))]
  /\ UNCHANGED <<store, disk, credsFiles, DEVICE_FLOWS, drive, tmp, inv, fails, provLog>>

\* ------------------------------------------------- the store on its own
\* a caller of Storage: set_group(chat_id, group_data), then get_group
StoreSetGroup(t, chat_id, group_data) ==
  /\ task[t].h = "Storage"
  /\ store' = set_group(store, chat_id, group_data)
  /\ disk' = store'
  /\ task' = [task EXCEPT ![t].pc = "done",
                          ![t].args = <<"group", chat_id, group_data>>,
                          ![t].ret = <<get_group(store', chat_id)>>]
  /\ UNCHANGED <<credsFiles, DEVICE_FLOWS, drive, tmp, inv, fails, provLog>>

\* a caller of Storage: set_user(user_id, user_data), then get_user
StoreSetUser(t, user_id, user_data) ==
  /\ task[t].h = "Storage"
  /\ store' = set_user(store, user_id, user_data)
  /\ disk' = store'
  /\ task' = [task EXCEPT ![t].pc = "done",
                          ![t].args = <<"user", user_id, user_data>>,
                          ![t].ret = <<get_user(store', user_id)>>]
  /\ UNCHANGED <<credsFiles, DEVICE_FLOWS, drive, tmp, inv, fails, provLog>>

\* a caller of Storage: set_pending(user_id, chat_id), then
\* get_pending_group_for
StoreSetPending(t, user_id, chat_id) ==
  /\ task[t].h = "Storage"
  /\ store' = set_pending(store, user_id, chat_id)
  /\ disk' = store'
  /\ task' = [task EXCEPT ![t].pc = "done",
                          ![t].args = <<"pending", user_id, chat_id>>,
                          ![t].ret = <<get_pending_group_for(store', user_id)>>]
  /\ UNCHANGED <<credsFiles, DEVICE_FLOWS, drive, tmp, inv, fails, provLog>>

\* ------------------------------------------------ state the program starts in
\* Storage.__init__ loads the state file: a missing or empty file gives the
\* empty document. The records a file may hold for a chat: none, linked
\* without references (with or without a "folders" key, in reply or in auto
\* mode, enabled or not)
InitGroups ==
  {EmptyGroup,
   [EmptyGroup EXCEPT !.exists = TRUE, !.drive_user_id = 1],
   [EmptyGroup EXCEPT !.exists = TRUE, !.drive_user_id = 1, !.has_folders = TRUE],
   [EmptyGroup EXCEPT !.exists = TRUE, !.drive_user_id = 1, !.mode = "auto",
                      !.auto_enabled = TRUE, !.notify_interval_h = 2,
                      !.keywords = << <<"x">> >>],
   [EmptyGroup EXCEPT !.exists = TRUE, !.drive_user_id = 1, !.enabled = FALSE],
   [EmptyGroup EXCEPT !.exists = TRUE, !.drive_user_id = NumUsers]}

\* user 1 has a credential file, the other users have none
InitUsers ==
  [u \in Users |-> IF u = 1 THEN [exists |-> TRUE, lang |-> "ar", creds_file |-> 1]
                   ELSE EmptyUser]

InitLoaded ==
  /\ store \in {EmptyDoc} \cup
              [users : {InitUsers},
                keys : {StoreKeys},
                groups : [Chats -> InitGroups],
                pending : [Users -> {[chat_id |-> str(c), await |-> "none"] : c \in Chats}]]
  /\ disk = store
  /\ credsFiles = {1}
  /\ DEVICE_FLOWS = [u \in Users |-> NoFlow]
  /\ drive = <<>>
  /\ tmp = {}
  /\ task = [t \in Tasks |-> IdleTask]
  /\ inv = 0
  /\ fails = 0
  /\ provLog = <<>>

\* ------------------------------------------------- provisioning alone
NextProv ==
  \/ \E t \in Tasks, u \in Users : GroupEnsureFolders(t, u)
  \/ \E t \in Tasks : GroupEnsureFoldersGotChat(t)
  \/ \E t \in Tasks : GroupEnsureFoldersChatFails(t)
  \/ \E t \in Tasks, u \in Users : DriveUnlink(t, u)

SpecProv == InitLoaded /\ [][NextProv]_vars

\* ------------------------------------------------- archiving
NextArchive ==
  \/ \E t \in Tasks, c \in Chats, msg \in Shapes \cup {NoReply}, title \in ArchiveTitles :
        ArchiveCmd(t, c, msg, title)
  \/ \E t \in Tasks, c \in Chats, msg \in Shapes, title \in ArchiveTitles :
        AutoArchiver(t, c, msg, title)
  \/ \E t \in Tasks : ArchiveDownloadOpen(t)
  \/ \E t \in Tasks : ArchiveDownloadFails(t)
  \/ \E t \in Tasks : ArchiveUpload(t)
  \/ \E t \in Tasks, u \in Users : DriveUnlink(t, u)

SpecArchive == InitLoaded /\ [][NextArchive]_vars

\* ------------------------------------------------- linking
NextAuth ==
  \/ \E t \in Tasks, u \in Users : DriveLink(t, u)
  \/ \E t \in Tasks : DriveLinkStarted(t)
  \/ \E t \in Tasks : DriveLinkFails(t)
  \/ \E t \in Tasks, u \in Users : DriveVerify(t, u)
  \/ \E t \in Tasks, resp \in Responses : DriveVerifyPoll(t, resp)
  \/ \E t \in Tasks : DriveVerifyWake(t)

SpecAuth == InitLoaded /\ [][NextAuth]_vars

\* ------------------------------------------------- the poll on its own
\* every task is a call of poll_device_flow_token with an interval and a
\* timeout of the caller's choice
InitPoll ==
  /\ store = EmptyDoc
  /\ disk = store
  /\ credsFiles = {1}
  /\ DEVICE_FLOWS = [u \in Users |-> NoFlow]
  /\ drive = <<>>
  /\ tmp = {}
  /\ task \in [Tasks -> {[IdleTask EXCEPT !.h = "poll_device_flow_token",
                                          !.pc = "poll",
                                          !.poll = poll_device_flow_token(i, s)] :
                           i \in 0..MaxInterval, s \in 0..MaxTimeout}]
  /\ inv = 0
  /\ fails = 0
  /\ provLog = <<>>

NextPoll ==
  \/ \E t \in Tasks, resp \in Responses : PollRespond(t, resp)
  \/ \E t \in Tasks : PollSleepEnds(t)

\* the endpoint answers every request and every sleep returns
SpecPoll ==
  /\ InitPoll
  /\ [][NextPoll]_vars
  /\ \A t \in Tasks : /\ WF_vars(\E resp \in Responses : PollRespond(t, resp))
                      /\ WF_vars(PollSleepEnds(t))

\* ------------------------------------------------- the store on its own
\* the documents a state file may hold: any of the three keys, or none
UserRecords == {EmptyUser, [exists |-> TRUE, lang |-> "en", creds_file |-> 1]}

InitStore ==
  /\ store \in {d \in [users : [Users -> UserRecords],
                       groups : [Chats -> InitGroups],
                       pending : [Users -> {NoPending} \cup
                                    {[chat_id |-> str(c), await |-> "none"] : c \in Chats}],
                       keys : SUBSET StoreKeys] :
                  /\ "users" \notin d.keys => d.users = EmptyDoc.users
                  /\ "groups" \notin d.keys => d.groups = EmptyDoc.groups
                  /\ "pending" \notin d.keys => d.pending = EmptyDoc.pending}
  /\ disk = store
  /\ credsFiles = {1}
  /\ DEVICE_FLOWS = [u \in Users |-> NoFlow]
  /\ drive = <<>>
  /\ tmp = {}
  /\ task = [t \in Tasks |-> IF t = 1 THEN [IdleTask EXCEPT !.h = "Storage"]
                             ELSE IdleTask]
  /\ inv = 0
  /\ fails = 0
  /\ provLog = <<>>

NextStore ==
  \/ \E t \in Tasks, c \in Chats, g \in InitGroups : StoreSetGroup(t, c, g)
  \/ \E t \in Tasks, u \in Users, r \in UserRecords : StoreSetUser(t, u, r)
  \/ \E t \in Tasks, u \in Users, c \in Chats : StoreSetPending(t, u, c)

SpecStore == InitStore /\ [][NextStore]_vars

\* ------------------------------------------------- sanitize_name alone
\* the characters of a name: an ordinary run, a blank, two illegal ones
NameTokens == {"a", " ", "/", "?"}

Names == UNION {[1..n -> NameTokens] : n \in 0..MaxLen}

InitSan ==
  /\ store = EmptyDoc
  /\ disk = store
  /\ credsFiles = {}
  /\ DEVICE_FLOWS = [u \in Users |-> NoFlow]
  /\ drive = <<>>
  /\ tmp = {}
  /\ task \in {[t \in Tasks |-> IF t = 1
                                THEN [IdleTask EXCEPT !.h = "sanitize_name", !.pc = "call",
                                                      !.args = <<name, default>>]
                                ELSE IdleTask] :
                 name \in Names, default \in Names}
  /\ inv = 0
  /\ fails = 0
  /\ provLog = <<>>

NextSan ==
  \/ \E t \in Tasks : SanitizeName(t)
  \/ \E t \in Tasks : SanitizeAgain(t)

SpecSan == InitSan /\ [][NextSan]_vars

\* ------------------------------------------------- several groups
\* NumTitled groups linked to the account of user 1, none provisioned (with
\* or without a "folders" key); user u set up group u
InitRoots ==
  /\ store \in [users : {InitUsers},
                keys : {StoreKeys},
                groups : [1..NumTitled ->
                            {[EmptyGroup EXCEPT !.exists = TRUE, !.drive_user_id = 1],
                             [EmptyGroup EXCEPT !.exists = TRUE, !.drive_user_id = 1,
                                                !.has_folders = TRUE]}],
                pending : {[u \in Users |->
                              [chat_id |-> str(IF u <= NumTitled THEN u ELSE NumTitled),
                               await |-> "none"]]}]
  /\ disk = store
  /\ credsFiles = {1}
  /\ DEVICE_FLOWS = [u \in Users |-> NoFlow]
  /\ drive = <<>>
  /\ tmp = {}
  /\ task = [t \in Tasks |-> IdleTask]
  /\ inv = 0
  /\ fails = 0
  /\ provLog = <<>>

NextRoots ==
  \/ \E t \in Tasks, u \in Users : GroupEnsureFolders(t, u)
  \/ \E t \in Tasks : GroupEnsureFoldersGotChat(t)
  \/ \E t \in Tasks : GroupEnsureFoldersChatFails(t)

SpecRoots == InitRoots /\ [][NextRoots]_vars

\* ------------------------------------------------- linking and settings
\* a loaded document after "drive:link" stored a device flow with an
\* interval of its own for every user
InitLinking ==
  /\ store \in [users : {InitUsers},
                keys : {StoreKeys},
                groups : [Chats -> InitGroups],
                pending : [Users -> {[chat_id |-> str(c), await |-> "none"] : c \in Chats}]]
  /\ disk = store
  /\ credsFiles = {1}
  /\ DEVICE_FLOWS \in [Users -> [set : {TRUE}, device_code : {1}, interval : FlowIntervals \ {0}]]
  /\ drive = <<>>
  /\ tmp = {}
  /\ task = [t \in Tasks |-> IdleTask]
  /\ inv = 0
  /\ fails = 0
  /\ provLog = <<>>

NextLinking ==
  \/ \E t \in Tasks, u \in Users : DriveVerify(t, u)
  \/ \E t \in Tasks, resp \in Responses : DriveVerifyPoll(t, resp)
  \/ \E t \in Tasks : DriveVerifyWake(t)
  \/ \E t \in Tasks, u \in Users : GroupToggleArch(t, u)
  \/ \E t \in Tasks, u \in Users, action \in {"mode", "auto"} : AdvToggle(t, u, action)
  \/ \E t \in Tasks, u \in Users : DriveUnlink(t, u)

SpecLinking == InitLinking /\ [][NextLinking]_vars

\* ------------------------------------------------- setup
\* a loaded document in which no user has a pending group yet
InitSetup ==
  /\ store \in [users : {InitUsers},
                keys : {StoreKeys},
                groups : [Chats -> InitGroups],
                pending : {[u \in Users |-> NoPending]}]
  /\ disk = store
  /\ credsFiles = {1}
  /\ DEVICE_FLOWS = [u \in Users |-> NoFlow]
  /\ drive = <<>>
  /\ tmp = {}
  /\ task = [t \in Tasks |-> IdleTask]
  /\ inv = 0
  /\ fails = 0
  /\ provLog = <<>>

NextSetup ==
  \/ \E t \in Tasks, u \in Users, c \in Chats \cup {0} : CmdSetup(t, u, c)
  \/ \E t \in Tasks : CmdSetupGotMember(t)
  \/ \E t \in Tasks : CmdSetupMemberFails(t)
  \/ \E t \in Tasks, u \in Users, payload \in Payloads : CmdStartSetupPrivate(t, u, payload)
  \/ \E t \in Tasks, u \in Users : GroupToggleArch(t, u)
  \/ \E t \in Tasks, u \in Users : DriveUnlink(t, u)

SpecSetup == InitSetup /\ [][NextSetup]_vars

\* ------------------------------------------------- settings
NextSettings ==
  \/ \E t \in Tasks, u \in Users : GroupToggleArch(t, u)
  \/ \E t \in Tasks, u \in Users, a \in {"mode", "auto"} : AdvToggle(t, u, a)
  \/ \E t \in Tasks, u \in Users, a \in {"interval", "keywords"} : AdvAsk(t, u, a)
  \/ \E t \in Tasks : AdvAskEdited(t)
  \/ \E t \in Tasks : AdvAskEditFails(t)
  \/ \E t \in Tasks, u \in Users, text \in Texts : PrivateTextRouter(t, u, text)
  \/ \E t \in Tasks, u \in Users : DriveUnlink(t, u)

SpecSettings == InitLoaded /\ [][NextSettings]_vars

\* Two ensure calls of the log with no unlink of that chat between them
SameEpoch(i, j) ==
  /\ i < j
  /\ provLog[i].kind = "ensure" /\ provLog[j].kind = "ensure"
  /\ provLog[i].chat = provLog[j].chat
  /\ \A k \in i..j : provLog[k].kind = "unlink" => provLog[k].chat # provLog[i].chat

Refs(e) == <<e.root, e.folders, e.sheet>>

\* C1: two _ensure_group_structure calls in sequence for the same linked
\* group and the same title that both return give the same root, typed-folder
\* and ledger references, and the second call creates nothing.
C1_Idempotent ==
  \A i \in 1..(Len(provLog) - 1) :
    LET a == provLog[i]
        b == provLog[i + 1]
    IN  (/\ SameEpoch(i, i + 1) /\ a.linked /\ b.linked
         /\ a.title = b.title /\ a.ok /\ b.ok)
        => (Refs(b) = Refs(a) /\ b.made = {})

\* a first call that created all nine nodes, followed by a second call
C1_Witness ==
  /\ Len(provLog) >= 2
  /\ SameEpoch(1, 2)
  /\ provLog[1].ok /\ provLog[2].ok /\ provLog[1].title = provLog[2].title
  /\ Cardinality(provLog[1].made) = Len(mapping) + 2

Roles == FolderKeys \cup {"root", "sheet"}

RefOf(e, role) ==
  IF role = "root" THEN e.root ELSE IF role = "sheet" THEN e.sheet ELSE e.folders[role]

MadeRoles(e) == {x[1] : x \in e.made}

\* C2: of two provisioning calls on one group that both return, whatever
\* the order in which the suspended callers resume, no node (root, typed
\* folder, ledger) is created by both, and the later call returns for every
\* node the earlier one created the reference of that node.
C2_OneCreatePerNode ==
  \A i, j \in 1..Len(provLog) :
    (SameEpoch(i, j) /\ provLog[i].linked /\ provLog[j].linked
       /\ provLog[i].ok /\ provLog[j].ok)
    => /\ MadeRoles(provLog[i]) \cap MadeRoles(provLog[j]) = {}
       /\ \A x \in provLog[i].made : RefOf(provLog[j], x[1]) = x[2]

\* two callers were suspended together on the unprovisioned group; the one
\* that resumed first created the nine nodes, the other then returned
C2_Witness ==
  \E i, j \in 1..Len(provLog) :
    /\ SameEpoch(i, j) /\ provLog[i].ok /\ provLog[j].ok
    /\ provLog[i].task # provLog[j].task
    /\ provLog[j].since < i
    /\ MadeRoles(provLog[i]) = Roles

\* ------------------------------------------------- claims on archiving
Count(trace, e) == Cardinality({i \in 1..Len(trace) : trace[i].e = e})

\* an archive invocation that passed its preconditions and has ended
Passed(t) ==
  /\ task[t].h \in ArchiveHandlers
  /\ task[t].pc = "done"
  /\ Len(task[t].trace) > 0
  /\ task[t].trace[1] = Say("pre", "ok")

Raised(t) == Count(task[t].trace, "raise") > 0

\* C3: an archive invocation that passes its preconditions and meets no
\* failure performs exactly one of: a single ledger append, a single media
\* upload, or a no-content error reply
C3_ExactlyOne ==
  \A t \in Tasks : (Passed(t) /\ ~Raised(t)) =>
    LET a == Count(task[t].trace, "append")
        u == Count(task[t].trace, "upload")
        n == Cardinality({i \in 1..Len(task[t].trace) :
                            task[t].trace[i] = Say("reply", "no_content")})
    IN  \/ a = 1 /\ u = 0 /\ n = 0
        \/ a = 0 /\ u = 1 /\ n = 0
        \/ a = 0 /\ u = 0 /\ n = 1

\* the scratch files whose download completed in the invocation of task t:
\* all of them, and those whose removal did not fail
Downloaded(t) ==
  {task[t].trace[i].ref : i \in {j \in 1..Len(task[t].trace) :
                                   task[t].trace[j].e = "remove"}}

Removed(t) ==
  {task[t].trace[i].ref : i \in {j \in 1..Len(task[t].trace) :
                                   task[t].trace[j].e = "remove" /\
                                   task[t].trace[j].k = "ok"}}

Wrote(t, paths) == {f \in tmp : f.by = task[t].id /\ f.path \in paths}

NodeOf(ref) == drive[SetMin(NodesOf(drive, ref))]

\* a reply-triggered archive of a text-only message, in a group that held
\* no reference, that went through without a failure
TextOnFresh(t) ==
  /\ Passed(t) /\ ~Raised(t)
  /\ task[t].h = "archive_cmd"
  /\ task[t].prior = "none"
  /\ task[t].msg = [text |-> "text", media |-> {}]

\* the calls of such an invocation: nine creations in the order root, the 7
\* typed folders, the ledger; one append of the six-field row; the reply
C6_Order(t) ==
  LET tr == task[t].trace
  IN  /\ Len(tr) = Len(mapping) + 5
      /\ \A i \in 2..(Len(mapping) + 3) : tr[i].e = "create"
      /\ tr[2].k = "root"
      /\ \A i \in 1..Len(mapping) : tr[2 + i].k = mapping[i][1]
      /\ tr[Len(mapping) + 3].k = "sheet"
      /\ tr[Len(mapping) + 4].e = "append"
      /\ tr[Len(mapping) + 4].ref = tr[Len(mapping) + 3].ref
      /\ \E title \in ArchiveTitles :
           tr[Len(mapping) + 4].aux =
             <<now_iso, title, SENDER, str(SENDER_ID), str(MESSAGE_ID), <<"hello">> >>
      /\ tr[Len(mapping) + 5] = Say("reply", "archive_done")

\* what was created is a root folder and, inside it, the 7 typed folders
\* under their configured names and the ledger
C6_Created(t) ==
  LET tr == task[t].trace
  IN  /\ NodeOf(tr[2].ref).mime = "folder"
      /\ NodeOf(tr[2].ref).parent = <<"root">>
      /\ \A i \in 1..Len(mapping) :
           /\ NodeOf(tr[2 + i].ref).mime = "folder"
           /\ NodeOf(tr[2 + i].ref).name = mapping[i][2]
           /\ NodeOf(tr[2 + i].ref).parent = tr[2].ref
      /\ NodeOf(tr[Len(mapping) + 3].ref).mime = "sheet"
      /\ NodeOf(tr[Len(mapping) + 3].ref).parent = tr[2].ref

\* C6: a reply-triggered archive of a text-only message in a group with no
\* prior references creates the root folder, the 7 typed folders and the
\* ledger, then appends the one row, then replies with success, in that order
C6_EndToEnd == \A t \in Tasks : TextOnFresh(t) => (C6_Order(t) /\ C6_Created(t))

\* the order and the counts alone
C6_OrderOnly == \A t \in Tasks : TextOnFresh(t) => C6_Order(t)

\* C7: an archive of an image in a group that held all its references
\* creates no folder and no ledger, and the file it uploads lands in the
\* folder the group record holds under "photos"
C7_PhotoIntoPhotosFolder ==
  \A t \in Tasks :
    (task[t].h \in ArchiveHandlers /\ task[t].prior = "all") =>
      \A i \in 1..Len(task[t].trace) :
        /\ task[t].trace[i].e = "create" => task[t].trace[i].k = "file"
        /\ (/\ task[t].trace[i].e = "create"
            /\ task[t].trace[i - 1] = Event("upload", "photos", LocalOf(Media[1]),
                                            Media[1].name)) =>
             /\ task[t].trace[i].aux =
                  get_group(store, task[t].chat).folders["photos"]
             /\ NodeOf(task[t].trace[i].ref).parent = task[t].trace[i].aux

\* C8: a step changes the user a group is linked to, in memory or in the
\* state file, only if it is a step of the unlink or of the verify handler
C8_LinkOnlyByLinkOrUnlink ==
  [][\A c \in Chats :
       (\/ get_group(store', c).drive_user_id # get_group(store, c).drive_user_id
        \/ get_group(disk', c).drive_user_id # get_group(disk, c).drive_user_id) =>
         \E t \in Tasks : /\ task'[t] # task[t]
                          /\ task'[t].h \in {"drive:unlink", "drive:verify"}]_vars

\* an archive request was turned down for its credentials and the group is
\* still linked
C8_Witness ==
  \E t \in Tasks :
    /\ task[t].h \in ArchiveHandlers /\ task[t].pc = "done"
    /\ task[t].trace = <<Say("reply", "drive_not_linked")>>
    /\ get_group(store, task[t].chat).drive_user_id # 0

\* ------------------------------------------------- claims on linking
\* C4: every call of poll_device_flow_token ends, by a return or a raise,
\* whatever the endpoint answers and whatever interval and timeout it got
C4_Terminates == \A t \in Tasks : <>PollEnded(task[t].poll)

\* a verify invocation whose poll returned a token, and which has ended
TokenPolled(t) ==
  /\ task[t].h = "drive:verify"
  /\ task[t].pc = "done"
  /\ task[t].poll.pc = "returned"

\* C9: after a verify whose poll returned a token, the user record
\* references a credential file that loads, the pending group is linked to
\* that user, and _ensure_group_structure was called for that group
C9_VerifyBinds ==
  \A t \in Tasks : TokenPolled(t) =>
    /\ get_user_creds_file(store, task[t].user) = task[t].user
    /\ _get_user_creds(store, credsFiles, task[t].user) # 0
    /\ get_group(store, task[t].chat).drive_user_id = task[t].user
    /\ \E i \in 1..Len(provLog) :
         /\ provLog[i].kind = "ensure"
         /\ provLog[i].chat = task[t].chat
         /\ provLog[i].task = t

\* C10: after a verify whose poll returned a token, DEVICE_FLOWS has no
\* entry for the polling user
C10_FlowCleared ==
  \A t \in Tasks : TokenPolled(t) => ~DEVICE_FLOWS[task[t].user].set

\* ------------------------------------------------- claims, continued
\* the events of a trace that are a provisioning request, a ledger append,
\* a download or an upload
Work(trace) ==
  {i \in 1..Len(trace) :
     trace[i].e \in {"create", "refused", "append", "open", "upload", "remove"}}

\* C11: a step that starts archive_cmd tests, in this order, that the group
\* is enabled, that the command is a reply, and that the linked user's
\* credentials load; when one does not hold the invocation ends in that
\* step with the one reply of the first that fails, and that step changes
\* neither the provider, the scratch directory, the store nor the
\* provisioning log
C11_PreconditionOrder ==
  [][\A t \in Tasks :
       (task'[t] # task[t] /\ task'[t].h = "archive_cmd" /\ task'[t].id = inv + 1) =>
         LET g == get_group(store, task'[t].chat)
             creds == _get_user_creds(store, credsFiles, g.drive_user_id)
             msg == task'[t].msg
             first == IF ~g.enabled THEN "not_enabled"
                      ELSE IF msg = NoReply THEN "reply_required"
                      ELSE IF g.drive_user_id = 0 \/ creds = 0 THEN "drive_not_linked"
                      ELSE "ok"
         IN  IF first = "ok"
             THEN task'[t].trace[1] = Say("pre", "ok")
             ELSE /\ task'[t].pc = "done"
                  /\ task'[t].trace = <<Say("reply", first)>>
                  /\ UNCHANGED <<store, disk, drive, tmp, provLog>>]_vars

\* a disabled group was sent /archive without a reply and was told that
\* archiving is not enabled
C11_Witness ==
  \E t \in Tasks :
    /\ task[t].h = "archive_cmd" /\ task[t].pc = "done"
    /\ task[t].msg = NoReply
    /\ task[t].trace = <<Say("reply", "not_enabled")>>
    /\ ~get_group(store, task[t].chat).enabled

\* the typed folder references and the ledger reference of a record are
\* all absent or all present
AllOrNone(g) ==
  \/ g.folders = NoFolders /\ g.sheet_id = <<>>
  \/ g.sheet_id # <<>> /\ \A k \in FolderKeys : g.folders[k] # <<>>

\* C12: every step leaves every group record, in memory and in the state
\* file, with its typed folder references and its ledger reference all
\* absent or all present; and a step that appends a row or calls
\* upload_file does so for a record that has them all
C12_AllOrNone ==
  [][/\ \A c \in Chats : /\ AllOrNone(get_group(store', c))
                         /\ AllOrNone(get_group(disk', c))
     /\ \A t \in Tasks :
          (/\ task'[t].h \in ArchiveHandlers
           /\ Len(task'[t].trace) > Len(task[t].trace)
           /\ \E i \in (Len(task[t].trace) + 1)..Len(task'[t].trace) :
                task'[t].trace[i].e \in {"append", "upload"}) =>
            AllOrNone(get_group(store', task'[t].chat))]_vars

\* C13: what a get returns right after a set of the same key is the value
\* that was set: the group record, the user record, the pending chat
C13_SetThenGet ==
  \A t \in Tasks :
    (task[t].h = "Storage" /\ task[t].pc = "done") =>
      IF task[t].args[1] = "pending"
      THEN task[t].ret[1] = task[t].args[3]
      ELSE [task[t].ret[1] EXCEPT !.exists = TRUE] =
           [task[t].args[3] EXCEPT !.exists = TRUE]

\* C14: between handlers (no invocation in progress) the on-disk state
\* document equals the in-memory state document
C14_DiskEqualsMemory == (\A t \in Tasks : Free(t)) => disk = store

\* the user-facing messages of a trace
Messages(trace) == {i \in 1..Len(trace) : trace[i].e \in {"reply", "alert"}}

\* C15: an archive invocation that passed its preconditions and met a
\* failure ends in its except clause: archive_cmd sends exactly one message,
\* the failure reply, right after the failure; auto_archiver sends no
\* message at all; the failure is the last thing the try block did
C15_FailureHandled ==
  \A t \in Tasks : (Passed(t) /\ Raised(t)) =>
    LET tr == task[t].trace
        n == Len(tr)
    IN  /\ Count(tr, "raise") = 1
        /\ IF task[t].h = "archive_cmd"
           THEN /\ tr[n] = Say("reply", "archive_failed")
                /\ tr[n - 1].e = "raise"
                /\ Messages(tr) = {n}
           ELSE /\ tr[n].e = "raise"
                /\ Messages(tr) = {}

\* both handlers met a failure, archive_cmd after its download had begun
C15_Witness ==
  \E t1, t2 \in Tasks :
    /\ Passed(t1) /\ Raised(t1) /\ task[t1].h = "archive_cmd"
    /\ Count(task[t1].trace, "open") > 0
    /\ Passed(t2) /\ Raised(t2) /\ task[t2].h = "auto_archiver"

\* a name with no illegal character and no blank at either end
Clean(n) == (\A i \in 1..Len(n) : n[i] \notin Illegal) /\ RStrip(LStrip(n)) = n

\* what C16 asks of one call and its repetition, for the defaults in D
SanitizeContract(D) ==
  \A t \in Tasks :
    (task[t].h = "sanitize_name" /\ task[t].pc = "done" /\ task[t].args[2] \in D) =>
      LET name == task[t].args[1]
          default == task[t].args[2]
          r == task[t].ret[1]
      IN  /\ r # <<>>
          /\ \A i \in 1..Len(r) : r[i] \notin Illegal
          /\ name = <<>> => r = default
          /\ (name # <<>> /\ Clean(name)) => r = name
          /\ task[t].ret[2] = r

\* C16 as stated: for every name and every non-empty default the result is
\* non-empty, has no illegal character, is the default for an empty name,
\* is the name for a clean name, and is a fixed point of sanitize_name
C16_AnyDefault == SanitizeContract(Names \ {<<>>})

\* C16, amended: the same for every name and every non-empty default that
\* is itself a clean name
C16_CleanDefault == SanitizeContract({d \in Names \ {<<>>} : Clean(d)})

\* a name of illegal characters and blanks only fell back to a clean default
C16_Witness ==
  \E t \in Tasks :
    /\ task[t].h = "sanitize_name" /\ task[t].pc = "done"
    /\ task[t].args = << <<" ", "/", "?">>, <<"a", " ", "a">> >>
    /\ task[t].ret = << <<"a", " ", "a">>, <<"a", " ", "a">> >>

LinkShown(t) ==
  /\ task[t].h = "drive:link"
  /\ task[t].pc = "done"
  /\ Len(task[t].trace) > 0
  /\ task[t].trace[1] = Say("edit", "device_code_body")

\* C18: when two "drive:link" invocations of one user have both ended with
\* a complete flow, the flow stored for that user is the one of the
\* invocation that began second
C18_SecondCallWins ==
  \A t1, t2 \in Tasks :
    (/\ LinkShown(t1) /\ LinkShown(t2)
     /\ task[t1].user = task[t2].user
     /\ task[t1].id < task[t2].id) =>
      /\ DEVICE_FLOWS[task[t2].user].set
      /\ DEVICE_FLOWS[task[t2].user].device_code = task[t2].id

\* a verify invocation that has sent a request to the token endpoint
Requested(t) ==
  /\ task[t].h = "drive:verify"
  /\ task[t].poll.pc # "none"
  /\ ~(task[t].poll.pc = "loop" /\ task[t].poll.waited = 0)

\* C20: no verify invocation polls the token endpoint with a device code
\* for which a poll had ended with a denial or a timeout before the
\* invocation began
C20_TerminalNotPolled ==
  \A t \in Tasks : Requested(t) =>
    ~\E i \in 1..task[t].since :
        /\ provLog[i].kind = "poll"
        /\ provLog[i].code = task[t].args[1]
        /\ provLog[i].outcome \in {"device_flow_token_failed", "device_flow_timeout"}

\* C19: a call of poll_device_flow_token with a positive interval that
\* reports a timeout has spent asleep at least timeout_sec and less than
\* timeout_sec plus one interval
C19_TimeoutWindow ==
  \A t \in Tasks :
    (/\ task[t].h = "poll_device_flow_token"
     /\ task[t].poll.pc = "device_flow_timeout"
     /\ task[t].poll.interval > 0) =>
      /\ task[t].poll.timeout_sec <= task[t].poll.elapsed
      /\ task[t].poll.elapsed < task[t].poll.timeout_sec + task[t].poll.interval

\* C21: when a provisioning call of a linked group raised and a later call
\* for that group follows with no unlink between them, every node the failed
\* call created is referenced by the record it left, and no node (root,
\* typed folder, ledger) is created by both calls
C21_Resumable ==
  \A i, j \in 1..Len(provLog) :
    (SameEpoch(i, j) /\ provLog[i].linked /\ provLog[j].linked /\ ~provLog[i].ok)
    => /\ \A x \in provLog[i].made : RefOf(provLog[i], x[1]) = x[2]
       /\ MadeRoles(provLog[i]) \cap MadeRoles(provLog[j]) = {}

\* C22: in a call of poll_device_flow_token that was answered slow_down,
\* every sleep from that answer on lasts at least the increased interval
C22_IntervalStaysIncreased ==
  \A t \in Tasks :
    (/\ task[t].h = "poll_device_flow_token"
     /\ task[t].poll.pc = "sleep"
     /\ task[t].poll.slowed) =>
      task[t].poll.slept >= task[t].poll.interval + SLOW_DOWN_EXTRA

\* the name the provider holds for the node with reference ref
NameOf(ref) == drive[CHOOSE i \in 1..Len(drive) : NodeId(i) = ref].name

\* C23: two provisioning calls that returned for two distinct linked groups
\* with the same display title left the groups with distinct root folder
\* references, and the two root folders have distinct names
C23_DistinctRoots ==
  \A i, j \in 1..Len(provLog) :
    (/\ provLog[i].kind = "ensure" /\ provLog[j].kind = "ensure"
     /\ provLog[i].chat # provLog[j].chat
     /\ provLog[i].linked /\ provLog[j].linked
     /\ provLog[i].ok /\ provLog[j].ok
     /\ provLog[i].title = provLog[j].title) =>
      /\ provLog[i].root # provLog[j].root
      /\ NameOf(provLog[i].root) # NameOf(provLog[j].root)

\* C24: a step in which private_text_router handles a text of a user whose
\* pending item awaits an input leaves that item, in memory and in the state
\* file, awaiting nothing
C24_AwaitConsumed ==
  [][\A t \in Tasks :
       (/\ task'[t].id = inv + 1
        /\ task'[t].h = "private_text_router"
        /\ store.pending[task'[t].user].await # "none") =>
         /\ store'.pending[task'[t].user].await = "none"
         /\ disk'.pending[task'[t].user].await = "none"]_vars

\* C25: once an archive invocation has ended, whatever ended it, the scratch
\* directory holds no file that invocation wrote
C25_NothingLeftBehind ==
  \A t \in Tasks :
    (task[t].h \in ArchiveHandlers /\ task[t].pc = "done") =>
      \A f \in tmp : f.by # task[t].id

\* C26: whenever an archive invocation calls upload_file for the attachment
\* it downloaded, the scratch file it wrote is still in the scratch
\* directory: no other invocation's cleanup has removed it
C26_OwnFilePresentAtUpload ==
  [][\A t \in Tasks :
       (/\ task[t].h \in ArchiveHandlers
        /\ task[t].pc = "dl_read"
        /\ Count(task'[t].trace, "upload") > Count(task[t].trace, "upload")) =>
         \E f \in tmp : f.path = task[t].local]_vars

\* an upload step of task t: _upload resumed from the download and the
\* provider holds a new file after it
Uploads(t) ==
  /\ task[t].h \in ArchiveHandlers
  /\ task[t].pc = "dl_read"
  /\ task'[t].pc # "dl_read"
  /\ Len(drive') > Len(drive)

\* C27: at every upload the group is linked, the credentials the invocation
\* uploads with are those of the user the group is linked to at that moment,
\* and the new file's parent is a typed folder reference the record holds
\* at that moment
C27_UploadAsLinked ==
  [][\A t \in Tasks : Uploads(t) =>
       LET g == get_group(store, task[t].chat)
       IN  /\ g.drive_user_id # 0
           /\ task[t].creds = _get_user_creds(store, credsFiles, g.drive_user_id)
           /\ drive'[Len(drive')].parent \in
                {g.folders[k] : k \in FolderKeys} \ {<<>>}]_vars

\* C29: every step leaves every user's pending group, if any, a group in
\* which that user is administrator or creator, and every step of a
\* settings handler that changes a group record is taken for a user who is
\* administrator or creator of that group
C29_PendingOnlyForAdmins ==
  [][/\ \A u \in Users :
          _pending_group_for(store', u) # 0 =>
            ChatMemberStatus(_pending_group_for(store', u), u) \in ADMIN_STATUSES
     /\ \A t \in Tasks :
          (/\ task'[t].id = inv + 1
           /\ task'[t].h \in {"group:toggle_arch", "drive:unlink"}
           /\ store'.groups # store.groups) =>
            ChatMemberStatus(task'[t].chat, task'[t].user) \in ADMIN_STATUSES]_vars

\* the handlers that commit a group-settings change
SettingsHandlers == {"group:toggle_arch", "adv:mode", "adv:auto", "drive:unlink"}

\* a settings handler for the group of verify task t ran to its end after
\* that verify started
ChangedSince(t) ==
  \E x \in Tasks :
    /\ task[x].h \in SettingsHandlers
    /\ task[x].pc = "done"
    /\ task[x].chat = task[t].chat
    /\ task[x].id > task[t].id

\* the step in which the poll of verify task t returns a token
VerifyCompletes(t) ==
  /\ task[t].h = "drive:verify"
  /\ task[t].pc = "poll"
  /\ task'[t].pc = "done"
  /\ task'[t].poll.pc = "returned"

\* C28: when the poll of a verify returns a token after a settings handler
\* changed the same group during the poll, the step that ends the verify
\* keeps the group's settings as that handler left them and records the
\* verifying user as the group's linked identity
C28_SettingsSurviveVerify ==
  [][\A t \in Tasks :
       (VerifyCompletes(t) /\ ChangedSince(t)) =>
         LET old == get_group(store, task[t].chat)
             new == get_group(store', task[t].chat)
         IN  /\ new.enabled = old.enabled
             /\ new.mode = old.mode
             /\ new.auto_enabled = old.auto_enabled
             /\ new.notify_interval_h = old.notify_interval_h
             /\ new.keywords = old.keywords
             /\ new.drive_user_id = task[t].user]_vars
====
